---- MODULE Spec2Model ----
(***************************************************************************)
(* Model of the cookiecutter hooks of multiagent-boilerplate:              *)
(*   hooks/pre_gen_project.py   (the Pre-check Validator)                  *)
(*   hooks/post_gen_project.py  (the Bootstrap Sequencer)                  *)
(* Strings are sequences of one-character strings; filesystem paths are    *)
(* sequences of path components.  Console output is a sequence of message  *)
(* records [msg, arg].                                                     *)
(***************************************************************************)
EXTENDS Integers, Sequences, FiniteSets, TLC

VARIABLES
    python_version,     \* ctx["python_version"] as the hooks see it
    create_virtualenv,  \* ctx["create_virtualenv"]
    venv_name,          \* ctx["venv_name"], as path components
    cur_ver,            \* major.minor of the interpreter running the hooks
    os_name,            \* os.name of the host
    pc,                 \* position of the generation run
    run,                \* number of the generation run (1..MaxRuns)
    generated,          \* the template has been rendered in this run
    stderr,             \* error-stream output of this run
    stdout,             \* standard output of this run
    fs,                 \* state of each path of empty_dirs
    venv,               \* state of the filesystem at the resolved venv path
    probes,             \* what which()/check_output() answered per candidate
    py,                 \* __main__'s local py
    venv_path,          \* __main__'s local venv_path (result of create_venv)
    probeCalls,         \* interpreters invoked by discovery in this run
    create_exe,         \* python_exe that create_venv was called with
    createCalls,        \* invocations of "<exe> -m venv" in this run
    venv_exit,          \* exit status of the "-m venv" child of this run
    dotenv,             \* the .env file in the working directory
    environ,            \* os.environ of the hook process
    shellEnv,           \* environment of the last child shell, when it ended
    yaml_file,          \* the file at the path given to read_yaml
    yaml_mode,          \* read_yaml's format argument (the open mode)
    yaml_log_info,      \* read_yaml's log_info argument
    yaml_result,        \* how the last call of read_yaml ended
    log                 \* records the logger has emitted

yamlVars == <<yaml_file, yaml_mode, yaml_log_info, yaml_result, log>>

vars == <<python_version, create_virtualenv, venv_name, cur_ver, os_name, pc,
          run, generated, stderr, stdout, fs, venv, probes, py, venv_path,
          probeCalls, create_exe, createCalls, venv_exit, yamlVars, dotenv,
          environ, shellEnv>>

(***************************************************************************)
(* Bounds of the model.                                                    *)
(***************************************************************************)
MaxLen == 4         \* longest python_version string the validator is fed
MaxRuns == 2        \* generation runs over the same output directory
MaxBlocked == 1     \* listed paths that cannot be provisioned, initially
MaxStale == 1       \* listed paths that already hold another .gitkeep

(***************************************************************************)
(* Characters and strings.                                                 *)
(***************************************************************************)
Digits == {"1", "3"}
Alphabet == Digits \cup {".", "x", "\n"}
Whitespace == {"\n", " "}

StringsUpTo(n) == UNION {[1..k -> Alphabet] : k \in 0..n}

IsDigit(c) == c \in Digits

\* Length of the longest run of digits of s that starts at position i.
RECURSIVE DigitRun(_, _)
DigitRun(s, i) ==
    IF i <= Len(s) /\ IsDigit(s[i]) THEN 1 + DigitRun(s, i + 1) ELSE 0

\* re "$" without MULTILINE: at the end of the string, or just before a
\* newline that is the last character of the string.
AtDollar(s, i) ==
    \/ i = Len(s) + 1
    \/ i = Len(s) /\ s[i] = "\n"

\* PY_VER_RE.match(s): ^ \d+ \. \d+ $ , tried from position 1.  \d+ is greedy
\* and may give digits back, but a digit is never "." nor the end, so only the
\* full run can be followed by the next element of the pattern.
PY_VER_RE_match(s) ==
    LET a == DigitRun(s, 1)
        b == DigitRun(s, a + 2)
    IN  /\ a >= 1
        /\ a + 1 <= Len(s)
        /\ s[a + 1] = "."
        /\ b >= 1
        /\ AtDollar(s, a + 2 + b)

\* str.strip(): leading and trailing whitespace removed.
RECURSIVE LStrip(_)
LStrip(s) == IF s # <<>> /\ Head(s) \in Whitespace THEN LStrip(Tail(s)) ELSE s

RECURSIVE RStrip(_)
RStrip(s) ==
    IF s # <<>> /\ s[Len(s)] \in Whitespace
    THEN RStrip(SubSeq(s, 1, Len(s) - 1)) ELSE s

Strip(s) == LStrip(RStrip(s))

\* str.lower() on the one-character answers the flag takes.
Lower(s) == [i \in 1..Len(s) |->
                CASE s[i] = "Y" -> "y"
                  [] s[i] = "N" -> "n"
                  [] OTHER -> s[i]]

Msg(m, a) == [msg |-> m, arg |-> a]

(***************************************************************************)
(* The Pre-check Validator: hooks/pre_gen_project.py                       *)
(***************************************************************************)
\* Line 15: cur_ver != python_version.
VersionDiffersMajorOnly(cur, ver) == cur[1] # ver[1]

VersionDiffers(cur, ver) == cur # ver

\* The whole script: raise ValueError on a version the pattern refuses, else
\* warn on the error stream when the running interpreter differs, and end
\* normally so that the generation goes on.
PreGen ==
    /\ pc = "pre_gen"
    /\ IF ~PY_VER_RE_match(python_version)
       THEN /\ stderr' = Append(stderr, Msg("ValueError", python_version))
            /\ pc' = "aborted"
       ELSE /\ stderr' = IF VersionDiffers(cur_ver, python_version)
                         THEN Append(stderr, Msg("version_warning", python_version))
                         ELSE stderr
            /\ pc' = "generate"
    /\ UNCHANGED <<python_version, create_virtualenv, venv_name, cur_ver,
                   os_name, run, generated, stdout, fs, venv, probes, py,
                   venv_path, probeCalls, create_exe, createCalls, venv_exit,
                   yamlVars, dotenv, environ, shellEnv>>

\* The generation tool renders the template between the two hooks.
Generate ==
    /\ pc = "generate"
    /\ generated' = TRUE
    /\ pc' = "post_init"
    /\ UNCHANGED <<python_version, create_virtualenv, venv_name, cur_ver,
                   os_name, run, stderr, stdout, fs, venv, probes, py,
                   venv_path, probeCalls, create_exe, createCalls, venv_exit,
                   yamlVars, dotenv, environ, shellEnv>>

(***************************************************************************)
(* Directory provisioning: initialize_project                              *)
(***************************************************************************)
EmptyDirs == << <<"..", "backend", "data", "external">>,
                <<"..", "backend", "data", "interim">>,
                <<"..", "backend", "data", "processed">>,
                <<"..", "backend", "artifacts">>,
                <<"..", "backend", "notebooks">> >>

DirIds == 1..Len(EmptyDirs)

GITKEEP_LINE == "# This file ensures the directory is tracked by git\n"

\* A listed path: absent, a directory (with or without .gitkeep), or a regular
\* file standing where the directory should be.
Absent == [kind |-> "absent", hasKeep |-> FALSE, keep |-> <<>>]
Blocked == [kind |-> "file", hasKeep |-> FALSE, keep |-> <<>>]
Stale == [kind |-> "dir", hasKeep |-> TRUE, keep |-> <<"old\n">>]

\* open(gitkeep_path, 'a'): what is written lands after the old content.
WriteGitkeepAppend(old) == Append(old, GITKEEP_LINE)

\* open(gitkeep_path, 'w'); f.write(...): the old content is truncated.
WriteGitkeep(old) == <<GITKEEP_LINE>>

\* The loop of lines 19-23 from index i on.  os.makedirs(exist_ok=True)
\* raises FileExistsError on a path that is a regular file, and the loop ends
\* there with what it wrote so far left in place.
RECURSIVE ProvisionFrom(_, _)
ProvisionFrom(f, i) ==
    IF i > Len(EmptyDirs) THEN [fs |-> f, ok |-> TRUE]
    ELSE IF f[i].kind = "file" THEN [fs |-> f, ok |-> FALSE]
    ELSE ProvisionFrom(
            [f EXCEPT ![i] = [kind |-> "dir", hasKeep |-> TRUE,
                              keep |-> WriteGitkeep(f[i].keep)]],
            i + 1)

Cwd == <<"/", "out", "project">>

InitDoneMessages ==
    << Msg("structure_created", <<>>), Msg("located_at", Cwd),
       Msg("next_steps", <<>>), Msg("step_1", <<>>), Msg("step_2", <<>>),
       Msg("step_3", <<>>) >>

InitializeProject ==
    /\ pc = "post_init"
    /\ LET r == ProvisionFrom(fs, 1)
       IN  /\ fs' = r.fs
           /\ stdout' = IF r.ok
                        THEN <<Msg("initializing", <<>>)>> \o InitDoneMessages
                        ELSE <<Msg("initializing", <<>>)>>
           /\ pc' = IF r.ok THEN "post_main" ELSE "crashed"
    /\ UNCHANGED <<python_version, create_virtualenv, venv_name, cur_ver,
                   os_name, run, generated, stderr, venv, probes, py,
                   venv_path, probeCalls, create_exe, createCalls, venv_exit,
                   yamlVars, dotenv, environ, shellEnv>>

(***************************************************************************)
(* Interpreter discovery: which, pick_python_interpreter                   *)
(***************************************************************************)
\* An executable is the directory it lives in and its name; NoExe is the
\* None that shutil.which answers for a name that is not on the search path.
NoExe == [dir |-> "", name |-> <<>>]
SysExecutable == [dir |-> "/opt/python/bin", name |-> <<"python">>]

\* Line 75; the literal prefix "python" is kept as one token.
Candidates(target_py) ==
    << <<"python">> \o target_py, <<"python", "3">>, <<"python">> >>

\* What the host answers for one candidate: whether the name is on the search
\* path, whether running it succeeds, and the bytes it prints.
NotOnPath == [found |-> FALSE, ok |-> FALSE, out |-> <<>>]
Fails == [found |-> TRUE, ok |-> FALSE, out |-> <<>>]
Reports(v) == [found |-> TRUE, ok |-> TRUE, out |-> v \o <<"\n">>]

ReportedVersions == { <<"3", ".", "1">>, <<"3", ".", "1", "3">> }
ProbeAnswers == {NotOnPath, Fails} \cup {Reports(v) : v \in ReportedVersions}
NoProbes == <<>>

which(cand, answer) ==
    IF answer.found THEN [dir |-> "/usr/bin", name |-> cand] ELSE NoExe

\* A candidate is accepted when it is found, its version query succeeds and
\* the stripped output equals the requested string (lines 77-84).
Accepts(answer, target_py) ==
    /\ answer.found
    /\ answer.ok
    /\ Strip(answer.out) = target_py

\* The loop going on after an accepted candidate: the last one accepted wins.
RECURSIVE PickFromLast(_, _, _)
PickFromLast(target_py, answers, i) ==
    IF i > Len(answers) THEN SysExecutable
    ELSE LET later == PickFromLast(target_py, answers, i + 1)
         IN  IF later # SysExecutable THEN later
             ELSE IF Accepts(answers[i], target_py)
                  THEN which(Candidates(target_py)[i], answers[i])
                  ELSE SysExecutable

\* The loop of lines 76-86 from candidate i on, and the fallback of line 88.
RECURSIVE PickFrom(_, _, _)
PickFrom(target_py, answers, i) ==
    IF i > Len(answers) THEN SysExecutable
    ELSE IF Accepts(answers[i], target_py)
         THEN which(Candidates(target_py)[i], answers[i])
         ELSE PickFrom(target_py, answers, i + 1)

\* A discovery that trusts the first name found on the search path.
RECURSIVE PickFirstFound(_, _, _)
PickFirstFound(target_py, answers, i) ==
    IF i > Len(answers) THEN SysExecutable
    ELSE IF answers[i].found
         THEN which(Candidates(target_py)[i], answers[i])
         ELSE PickFirstFound(target_py, answers, i + 1)

PickAnyFound(target_py, answers) == PickFirstFound(target_py, answers, 1)

pick_python_interpreter(target_py, answers) == PickFrom(target_py, answers, 1)

\* Candidates that were run (check_output) before the loop returned.
RECURSIVE InvokedFrom(_, _, _)
InvokedFrom(target_py, answers, i) ==
    IF i > Len(answers) THEN 0
    ELSE IF Accepts(answers[i], target_py) THEN 1
    ELSE (IF answers[i].found THEN 1 ELSE 0)
         + InvokedFrom(target_py, answers, i + 1)

\* Line 117 with no test of the flag.
VenvAlwaysRequested(flag) == TRUE

\* Line 117: ctx["create_virtualenv"].lower() == "y".
VenvRequested(flag) == Lower(flag) = <<"y">>

\* Lines 117-118: the flag asks for an environment and discovery runs.
PickInterpreter ==
    /\ pc = "post_main"
    /\ VenvRequested(create_virtualenv)
    /\ \E answers \in [1..3 -> ProbeAnswers] :
          /\ probes' = answers
          /\ py' = pick_python_interpreter(python_version, answers)
          /\ probeCalls' = InvokedFrom(python_version, answers, 1)
    /\ pc' = "post_create"
    /\ UNCHANGED <<python_version, create_virtualenv, venv_name, cur_ver,
                   os_name, run, generated, stderr, stdout, fs, venv,
                   venv_path, create_exe, createCalls, venv_exit,
                   yamlVars, dotenv, environ, shellEnv>>

\* Line 117 false: the whole branch is skipped.
SkipVenv ==
    /\ pc = "post_main"
    /\ ~VenvRequested(create_virtualenv)
    /\ pc' = "post_banner"
    /\ UNCHANGED <<python_version, create_virtualenv, venv_name, cur_ver,
                   os_name, run, generated, stderr, stdout, fs, venv, probes,
                   py, venv_path, probeCalls, create_exe, createCalls,
                   venv_exit, yamlVars, dotenv, environ, shellEnv>>

(***************************************************************************)
(* Environment creation: create_venv                                       *)
(***************************************************************************)
Home == <<"/", "home", "user">>
NoPath == <<>>
NoExit == 0 - 1

\* Users whose home directory the host cannot tell.
UnknownUsers == {"~nouser"}

\* Path(venv_name).expanduser().resolve() (line 91).  expanduser raises
\* RuntimeError for "~user" when that user's home cannot be determined.
ResolveVenvPath(name) ==
    IF Head(name) \in UnknownUsers THEN [ok |-> FALSE, path |-> NoPath]
    ELSE IF Head(name) = "~" THEN [ok |-> TRUE, path |-> Home \o Tail(name)]
    ELSE IF Head(name) = "/" THEN [ok |-> TRUE, path |-> name]
    ELSE [ok |-> TRUE, path |-> Cwd \o name]

\* Exit statuses "<exe> -m venv <path>" can end with: it cannot succeed on a
\* path that exists and is not writable, and it can always fail (an
\* interpreter without a working venv module).
VenvExitStatuses(v) == IF v.kind = "readonly" THEN {1} ELSE {0, 1}

\* Lines 92-97 with the except clause missing: CalledProcessError leaves
\* create_venv.
RaisesOnExit(status) == status # 0

\* Lines 95-97: CalledProcessError is caught, so no exit status makes
\* create_venv raise.
CalledProcessErrorEscapes(status) == FALSE

\* A create_venv that undoes the provisioning when the child fails.
RollBackOnFailure(f, status) ==
    IF status > 0 THEN [d \in DirIds |-> Absent] ELSE f

\* Lines 90-97 and 119-127 hold no call that removes or rewrites a listed
\* directory or its .gitkeep, whatever the child's exit status.
FsAfterCreateVenv(f, status) == f

\* Lines 119-123: __main__ leaves through sys.exit(0) on an empty py, else
\* calls create_venv, which resolves the path, runs the child and returns
\* the path or None.
CreateVenv ==
    /\ pc = "post_create"
    /\ probes' = NoProbes
    /\ IF py = NoExe
       THEN /\ stdout' = Append(stdout, Msg("no_interpreter", <<>>))
            /\ pc' = "exited"
            /\ UNCHANGED <<venv, venv_path, create_exe, createCalls, venv_exit>>
       ELSE LET r == ResolveVenvPath(venv_name)
            IN  /\ create_exe' = py
                /\ IF ~r.ok
                   THEN /\ pc' = "crashed"
                        /\ UNCHANGED <<stdout, venv, venv_path, createCalls,
                                       venv_exit>>
                   ELSE \E status \in VenvExitStatuses(venv) :
                          /\ createCalls' = createCalls + 1
                          /\ venv_exit' = status
                          /\ venv' = IF status = 0
                                     THEN [kind |-> "env", exe |-> py]
                                     ELSE venv
                          /\ IF status = 0
                             THEN /\ venv_path' = r.path
                                  /\ stdout' = stdout
                                  /\ pc' = "post_report"
                             ELSE IF CalledProcessErrorEscapes(status)
                             THEN /\ venv_path' = NoPath
                                  /\ stdout' = stdout
                                  /\ pc' = "crashed"
                             ELSE /\ venv_path' = NoPath
                                  /\ stdout' = Append(stdout,
                                                 Msg("venv_error", py.name))
                                  /\ pc' = "post_report"
    /\ fs' = FsAfterCreateVenv(fs, venv_exit')
    /\ UNCHANGED <<python_version, create_virtualenv, venv_name, cur_ver,
                   os_name, run, generated, stderr, py, probeCalls,
                   yamlVars, dotenv, environ, shellEnv>>

(***************************************************************************)
(* Guidance output: print_activation_help, and the else branch of __main__ *)
(***************************************************************************)
\* The directory of an environment's scripts with the test of os.name lost.
ScriptsDirPosixOnly(os) == "bin"

\* Lines 100-107.
ScriptsDir(os) == IF os = "nt" THEN "Scripts" ELSE "bin"

\* Lines 109-112.  Line 110 prints "Activate:\n  source <activate>" off
\* Windows and "  <activate>" on it: either way the activate path.
print_activation_help(path, os) ==
    << Msg("venv_created", <<>>),
       Msg(IF os # "nt" THEN "activate_source" ELSE "activate",
           path \o <<ScriptsDir(os), "activate">>),
       Msg("pip", path \o <<ScriptsDir(os), "pip">>),
       Msg("python", path \o <<ScriptsDir(os), "python">>) >>

\* Line 124: "if venv_path:" -- a Path is always true, None never.
Truthy(path) == path # NoPath

\* The else branch leaving through sys.exit, as the branch of line 121 does.
ExitAfterFailure(path) == IF path = NoPath THEN "exited" ELSE "post_banner"

\* Lines 124-129: both branches fall through to show_welcome_banner.
NextAfterReport(path) == "post_banner"

ReportVenv ==
    /\ pc = "post_report"
    /\ stdout' = IF Truthy(venv_path)
                 THEN stdout \o print_activation_help(venv_path, os_name)
                 ELSE Append(stdout, Msg("venv_failed", <<>>))
    /\ pc' = NextAfterReport(venv_path)
    /\ UNCHANGED <<python_version, create_virtualenv, venv_name, cur_ver,
                   os_name, run, generated, stderr, fs, venv, probes, py,
                   venv_path, probeCalls, create_exe, createCalls, venv_exit,
                   yamlVars, dotenv, environ, shellEnv>>

\* Line 129 and show_welcome_banner.
ShowWelcomeBanner ==
    /\ pc = "post_banner"
    /\ stdout' = Append(stdout, Msg("banner", <<>>))
    /\ pc' = "done"
    /\ UNCHANGED <<python_version, create_virtualenv, venv_name, cur_ver,
                   os_name, run, generated, stderr, fs, venv, probes, py,
                   venv_path, probeCalls, create_exe, createCalls, venv_exit,
                   yamlVars, dotenv, environ, shellEnv>>

\* The hooks of one generation run have ended, normally or not.
HookEnded == pc \in {"done", "crashed", "exited"}
RunEnded == HookEnded \/ pc = "aborted"

\* The user runs the generation again with the same context over the same
\* output directory: new processes, the filesystem as the last run left it.
Rerun ==
    /\ RunEnded
    /\ run < MaxRuns
    /\ run' = run + 1
    /\ pc' = "pre_gen"
    /\ generated' = FALSE
    /\ stderr' = <<>>
    /\ stdout' = <<>>
    /\ probes' = NoProbes
    /\ py' = NoExe
    /\ venv_path' = NoPath
    /\ probeCalls' = 0
    /\ create_exe' = NoExe
    /\ createCalls' = 0
    /\ venv_exit' = NoExit
    /\ UNCHANGED <<python_version, create_virtualenv, venv_name, cur_ver,
                   os_name, fs, venv, yamlVars, dotenv, environ, shellEnv>>

(***************************************************************************)
(* export_env_variables.  __main__ never calls it; it is modelled as the   *)
(* function applied on its own.                                            *)
(***************************************************************************)
EnvKeys == {"API_KEY", "DEBUG"}
EnvValues == {"1", "2"}
Unset == "<unset>"
Environments == [EnvKeys -> EnvValues \cup {Unset}]
NoShell == [k \in EnvKeys |-> Unset]

\* A .env file: whether it exists, the key=value lines it holds, and
\* whether sourcing it ends with a non-zero status.
NoDotenv == [exists |-> FALSE, lines |-> NoShell, fails |-> FALSE]
DotenvFiles ==
    {NoDotenv} \cup
    [exists : {TRUE}, lines : Environments, fails : BOOLEAN]

\* "set -a && source .env && set +a" in a child /bin/bash: the child starts
\* with a copy of os.environ and assigns each line of the file in it.
SourceInChild(parent, file) ==
    [k \in EnvKeys |-> IF file.lines[k] # Unset THEN file.lines[k] ELSE parent[k]]

\* Lines 45-51.  subprocess.run(..., check=True) raises CalledProcessError on
\* a non-zero status; the child's environment ends with the child, and
\* os.environ of the hook process is not assigned anywhere.
ExportEnvVariables ==
    /\ pc = "export"
    /\ IF dotenv.exists
       THEN /\ shellEnv' = SourceInChild(environ, dotenv)
            /\ IF dotenv.fails
               THEN /\ stdout' = Append(stdout, Msg("exporting", <<>>))
                    /\ pc' = "export_raised"
               ELSE /\ stdout' = stdout \o << Msg("exporting", <<>>),
                                             Msg("exported", <<>>) >>
                    /\ pc' = "export_done"
       ELSE /\ shellEnv' = shellEnv
            /\ stdout' = Append(stdout, Msg("env_not_found", <<>>))
            /\ pc' = "export_done"
    /\ UNCHANGED <<python_version, create_virtualenv, venv_name, cur_ver,
                   os_name, run, generated, stderr, fs, venv, probes, py,
                   venv_path, probeCalls, create_exe, createCalls, venv_exit,
                   yamlVars, dotenv, environ>>

(***************************************************************************)
(* read_yaml of backend/src/utils/common.py and of backend/src/logger.     *)
(***************************************************************************)
YamlKeys == {"name", "level", "file"}
YamlValues == {"a", "b"}
YamlMappings == [YamlKeys -> YamlValues \cup {Unset}]
NoMapping == [k \in YamlKeys |-> Unset]

\* The file at the path: missing, not readable by this user, or a file
\* whose text is not YAML, is empty, is a bare scalar, or is a mapping.
YamlFile(kind, data) == [kind |-> kind, data |-> data]
YamlFiles ==
    {YamlFile(k, NoMapping) :
        k \in {"missing", "denied", "malformed", "empty", "scalar"}}
    \cup {YamlFile("mapping", m) : m \in YamlMappings}
YamlModes == {"r", "rb", "w"}

\* How a call ended: not called, returned a value, or raised.
NotCalled == [outcome |-> "not_called", type |-> "", data |-> NoMapping]
Returned(type, data) == [outcome |-> "returned", type |-> type, data |-> data]
Raised(type) == [outcome |-> "raised", type |-> type, data |-> NoMapping]

\* open(path, mode): "r" needs the file to exist and be readable; "w"
\* creates or truncates it and needs it to be writable.
OpenFile(file, mode) ==
    IF file.kind = "denied" THEN Raised("PermissionError")
    ELSE IF mode = "w" THEN Returned("file", NoMapping)
    ELSE IF file.kind = "missing" THEN Raised("FileNotFoundError")
    ELSE Returned("file", file.data)

FileAfterOpen(file, mode) ==
    IF mode = "w" /\ file.kind # "denied"
    THEN YamlFile("empty", NoMapping) ELSE file

\* yaml.safe_load(f): reading a file opened for writing raises
\* io.UnsupportedOperation, text that is not YAML raises YAMLError; an
\* empty file loads as None and a bare scalar as a string.
SafeLoad(file, mode) ==
    IF mode = "w" THEN Raised("UnsupportedOperation")
    ELSE IF file.kind = "malformed" THEN Raised("YAMLError")
    ELSE IF file.kind = "empty" THEN Returned("None", NoMapping)
    ELSE IF file.kind = "scalar" THEN Returned("str", NoMapping)
    ELSE Returned("dict", file.data)

\* ConfigBox(params): a mapping is boxed, None and a string are refused
\* with BoxValueError.
MakeConfigBox(params) ==
    IF params.type = "dict" THEN Returned("ConfigBox", params.data)
    ELSE Raised("BoxValueError")

\* What the body of the try block does, before any except clause.
TryReadYaml(file, mode) ==
    LET f == OpenFile(file, mode)
        params == SafeLoad(file, mode)
    IN  IF f.outcome = "raised" THEN f
        ELSE IF params.outcome = "raised" THEN params
        ELSE MakeConfigBox(params)

\* common.py lines 184-188: both except clauses log and fall off the end of
\* the function, which then returns None.
CommonHandler(attempt) ==
    IF attempt.outcome = "raised" THEN Returned("None", NoMapping) ELSE attempt

\* Lines 181-182 log the success once safe_load has returned, before
\* ConfigBox is built; lines 185 and 187 log whatever was raised.
CommonLog(file, mode, log_info) ==
    LET f == OpenFile(file, mode)
        params == SafeLoad(file, mode)
        attempt == TryReadYaml(file, mode)
        loaded == f.outcome # "raised" /\ params.outcome # "raised"
    IN  (IF loaded /\ log_info THEN << Msg("info", <<"yaml_read">>) >> ELSE <<>>)
        \o (IF attempt.outcome = "raised"
            THEN << Msg("error", <<attempt.type>>) >> ELSE <<>>)

\* utils.common.read_yaml(path, format, log_info), lines 164-188.
ReadYamlCommon ==
    /\ pc = "read_yaml"
    /\ LET attempt == TryReadYaml(yaml_file, yaml_mode)
       IN  /\ yaml_result' = CommonHandler(attempt)
           /\ log' = log \o CommonLog(yaml_file, yaml_mode, yaml_log_info)
    /\ yaml_file' = FileAfterOpen(yaml_file, yaml_mode)
    /\ pc' = "read_yaml_common_done"
    /\ UNCHANGED <<python_version, create_virtualenv, venv_name, cur_ver,
                   os_name, run, generated, stderr, stdout, fs, venv, probes,
                   py, venv_path, probeCalls, create_exe, createCalls,
                   venv_exit, yaml_mode, yaml_log_info, dotenv, environ,
                   shellEnv>>

\* logger.read_yaml(file_path), lines 12-18: always mode 'r';
\* FileNotFoundError is raised anew, anything else propagates, nothing is
\* logged.
ReadYamlLogger ==
    /\ pc = "read_yaml"
    /\ yaml_mode = "r"
    /\ yaml_log_info = FALSE
    /\ yaml_result' = TryReadYaml(yaml_file, "r")
    /\ pc' = "read_yaml_logger_done"
    /\ UNCHANGED <<python_version, create_virtualenv, venv_name, cur_ver,
                   os_name, run, generated, stderr, stdout, fs, venv, probes,
                   py, venv_path, probeCalls, create_exe, createCalls,
                   venv_exit, yaml_file, yaml_mode, yaml_log_info, log,
                   dotenv, environ, shellEnv>>

YamlIdle ==
    /\ yaml_file = YamlFile("missing", NoMapping)
    /\ yaml_mode = "r"
    /\ yaml_log_info = FALSE
    /\ yaml_result = NotCalled
    /\ log = <<>>

(***************************************************************************)
(* Initial states and specifications.                                      *)
(***************************************************************************)
CurVersions == { <<"3", ".", "1">>, <<"3", ".", "1", "3">> }

\* Version strings the whole run is started with: the ones the documentation
\* names as malformed, well-formed ones, and one ending in a newline.
SampleVersions ==
    { <<>>, <<"3">>, <<"3", ".", "x">>, <<"3", ".", "1", ".", "1">>,
      <<"x", "x", "x">>, <<"3", ".", "1">>, <<"3", ".", "1", "3">>,
      <<"3", ".", "1", "\n">> }

Flags == { <<"y">>, <<"Y">>, <<"n">> }
VenvNames == { <<"venv">>, <<"~", "venv">>, <<"~nouser", "venv">> }
OsNames == {"posix", "nt"}

NoVenv == [kind |-> "absent", exe |-> NoExe]
ReadonlyVenv == [kind |-> "readonly", exe |-> NoExe]

InitDirStates == {Absent, Stale, Blocked}
Count(f, st) == Cardinality({d \in DirIds : f[d] = st})
InitFilesystems ==
    {f \in [DirIds -> InitDirStates] :
        Count(f, Blocked) <= MaxBlocked /\ Count(f, Stale) <= MaxStale}
FreshFilesystem == [d \in DirIds |-> Absent]

InitLocals ==
    /\ run = 1
    /\ generated = FALSE
    /\ stderr = <<>>
    /\ stdout = <<>>
    /\ probes = NoProbes
    /\ py = NoExe
    /\ venv_path = NoPath
    /\ probeCalls = 0
    /\ create_exe = NoExe
    /\ createCalls = 0
    /\ venv_exit = NoExit
    /\ shellEnv = NoShell

\* A generation run over an output directory in any state.
Init ==
    /\ pc = "pre_gen"
    /\ python_version \in SampleVersions
    /\ create_virtualenv \in Flags
    /\ venv_name \in VenvNames
    /\ cur_ver \in CurVersions
    /\ os_name \in OsNames
    /\ fs \in InitFilesystems
    /\ venv \in {NoVenv, ReadonlyVenv}
    /\ dotenv = NoDotenv
    /\ environ = NoShell
    /\ InitLocals
    /\ YamlIdle

Next ==
    \/ PreGen
    \/ Generate
    \/ InitializeProject
    \/ PickInterpreter
    \/ SkipVenv
    \/ CreateVenv
    \/ ReportVenv
    \/ ShowWelcomeBanner
    \/ Rerun

Spec == Init /\ [][Next]_vars

\* The validator alone, on every string up to MaxLen characters.
InitPre ==
    /\ pc = "pre_gen"
    /\ python_version \in StringsUpTo(MaxLen)
    /\ cur_ver \in CurVersions
    /\ create_virtualenv = <<"n">>
    /\ venv_name = <<"venv">>
    /\ os_name = "posix"
    /\ fs = FreshFilesystem
    /\ venv = NoVenv
    /\ dotenv = NoDotenv
    /\ environ = NoShell
    /\ InitLocals
    /\ YamlIdle

NextPre == PreGen

SpecPre == InitPre /\ [][NextPre]_vars

\* export_env_variables alone, on every .env file and process environment.
InitExport ==
    /\ pc = "export"
    /\ dotenv \in DotenvFiles
    /\ environ \in Environments
    /\ python_version = <<"3", ".", "1">>
    /\ cur_ver = <<"3", ".", "1">>
    /\ create_virtualenv = <<"n">>
    /\ venv_name = <<"venv">>
    /\ os_name = "posix"
    /\ fs = FreshFilesystem
    /\ venv = NoVenv
    /\ InitLocals
    /\ YamlIdle

NextExport == ExportEnvVariables

SpecExport == InitExport /\ [][NextExport]_vars

\* read_yaml alone, on every file state, open mode and log_info.
InitYaml ==
    /\ pc = "read_yaml"
    /\ yaml_file \in YamlFiles
    /\ yaml_mode \in YamlModes
    /\ yaml_log_info \in BOOLEAN
    /\ yaml_result = NotCalled
    /\ log = <<>>
    /\ python_version = <<"3", ".", "1">>
    /\ cur_ver = <<"3", ".", "1">>
    /\ create_virtualenv = <<"n">>
    /\ venv_name = <<"venv">>
    /\ os_name = "posix"
    /\ fs = FreshFilesystem
    /\ venv = NoVenv
    /\ dotenv = NoDotenv
    /\ environ = NoShell
    /\ InitLocals

NextYaml ==
    \/ ReadYamlCommon
    \/ ReadYamlLogger

SpecYaml == InitYaml /\ [][NextYaml]_vars

(***************************************************************************)
(* Properties.                                                             *)
(***************************************************************************)
\* A strict major.minor string: one or more digits, a dot, one or more
\* digits, and nothing before, between or after them.
IsMajorMinor(s) ==
    \E i \in 2..(Len(s) - 1) :
        /\ s[i] = "."
        /\ \A j \in 1..Len(s) : j # i => s[j] \in {"1", "3"}

Printed(m) == \E i \in DOMAIN stdout : stdout[i].msg = m
Provisioned == Printed("structure_created")
FlagAsksForVenv == create_virtualenv \in { <<"y">>, <<"Y">> }

\* C1: the validator accepts exactly the strings made of two numeric parts
\* joined by a dot, and raises for every other string, among them every
\* string with extra characters before or after the two parts.
C1_AcceptsExactlyMajorMinor ==
    pc # "pre_gen" =>
        /\ IsMajorMinor(python_version) => pc = "generate"
        /\ ~IsMajorMinor(python_version) => pc = "aborted"

\* C2: with a malformed version string nothing of the generation or of the
\* Bootstrap Sequencer ever happens: no file is rendered, no directory is
\* provisioned, no interpreter is probed and no environment is created.
C2_MalformedNeverBootstraps ==
    ~IsMajorMinor(python_version) =>
        /\ generated = FALSE
        /\ stdout = <<>>
        /\ \A d \in DirIds : fs[d] \in InitDirStates
        /\ probeCalls = 0
        /\ create_exe = NoExe
        /\ createCalls = 0
        /\ venv.kind # "env"

\* C3: for a well-formed version the validator ends normally and the
\* generation goes on; the error stream holds the warning exactly when the
\* version differs from the running interpreter's, and nothing else.
C3_WarningIsAdvisory ==
    (pc # "pre_gen" /\ IsMajorMinor(python_version)) =>
        /\ pc = "generate"
        /\ python_version # cur_ver =>
              stderr = << [msg |-> "version_warning", arg |-> python_version] >>
        /\ python_version = cur_ver => stderr = <<>>

C3_Witness ==
    /\ pc = "generate"
    /\ IsMajorMinor(python_version)
    /\ python_version # cur_ver
    /\ python_version[1] = cur_ver[1]
    /\ stderr # <<>>

Placeholder ==
    [kind |-> "dir", hasKeep |-> TRUE,
     keep |-> << "# This file ensures the directory is tracked by git\n" >>]
AllProvisioned(f) == \A d \in DirIds : f[d] = Placeholder

\* C4: once provisioning has completed every listed path is a directory
\* holding a placeholder with exactly the expected line; provisioning such
\* a state again completes and changes nothing, both as the loop computes
\* it and as the next generation run performs it.
C4_ProvisioningIdempotent ==
    /\ [](Provisioned =>
            /\ AllProvisioned(fs)
            /\ ProvisionFrom(fs, 1) = [fs |-> fs, ok |-> TRUE])
    /\ [][(pc = "post_init" /\ AllProvisioned(fs)) =>
            (fs' = fs /\ pc' = "post_main")]_vars

C4_Witness ==
    /\ run = 2
    /\ pc = "post_main"
    /\ AllProvisioned(fs)

BannerLast == stdout # <<>> /\ stdout[Len(stdout)].msg = "banner"
BannerCount == Cardinality({i \in DOMAIN stdout : stdout[i].msg = "banner"})
VenvPathResolvable == Head(venv_name) # "~nouser"

CandidateMatches(i) ==
    /\ probes[i].found
    /\ probes[i].ok
    /\ probes[i].out = python_version \o <<"\n">>
NoCandidateMatches ==
    /\ probes # NoProbes
    /\ \A i \in DOMAIN probes : ~CandidateMatches(i)

\* C7: when no candidate matches, discovery returns the interpreter running
\* the sequencer without raising, and create_venv is then called with it.
C7_FallbackToRunningInterpreter ==
    /\ []((pc = "post_create" /\ NoCandidateMatches) => py = SysExecutable)
    /\ [][(pc = "post_create" /\ NoCandidateMatches) =>
            (create_exe' = SysExecutable /\ pc' \in {"post_report", "crashed"})]_vars

C7_Witness ==
    /\ pc = "post_create"
    /\ NoCandidateMatches
    /\ \E i \in DOMAIN probes : probes[i].found /\ probes[i].ok
    /\ \E i \in DOMAIN probes : probes[i].found /\ ~probes[i].ok
    /\ py = SysExecutable

HelpPaths ==
    {i \in DOMAIN stdout :
        stdout[i].msg \in {"activate", "activate_source", "pip", "python"}}
ToolOf(m) == IF m = "activate_source" THEN "activate" ELSE m

\* C8: the guidance is printed exactly when this run created the
\* environment; it names activate, pip and python under the created path,
\* in Scripts on a Windows host and in bin on any other.
C8_GuidanceIffCreated ==
    /\ Printed("venv_created") =>
          /\ venv_exit = 0
          /\ venv.kind = "env"
          /\ venv_path # NoPath
          /\ {ToolOf(stdout[i].msg) : i \in HelpPaths} = {"activate", "pip", "python"}
    /\ (pc \in {"post_banner", "done"} /\ venv_exit = 0) => Printed("venv_created")
    /\ HelpPaths # {} => Printed("venv_created")
    /\ \A i \in HelpPaths :
          stdout[i].arg =
             venv_path \o << (IF os_name = "nt" THEN "Scripts" ELSE "bin"),
                             ToolOf(stdout[i].msg) >>

C8_Witness ==
    /\ pc = "done"
    /\ os_name = "nt"
    /\ Printed("venv_created")
    /\ Printed("activate")

\* C9: in one run an environment is created at most once; discovery and
\* creation happen only when the flag asks for an environment; without the
\* request the environment path is left alone; and once created, the
\* environment is not changed or removed by the rest of the run.
C9_VenvOnlyOnRequestAtMostOnce ==
    /\ [](/\ createCalls <= 1
          /\ (\/ probeCalls > 0
              \/ createCalls > 0
              \/ create_exe # NoExe
              \/ probes # NoProbes) => FlagAsksForVenv)
    /\ [][/\ ~FlagAsksForVenv => venv' = venv
          /\ createCalls = 1 => venv' = venv]_vars

C9_Witness ==
    /\ pc = "done"
    /\ createCalls = 1
    /\ probeCalls > 0
    /\ venv.kind = "env"

\* C10: after export_env_variables has run with a .env file present, every
\* key=value line of the file is set in the environment of the hook
\* process; with the file absent it prints the notice and ends normally.
C10_ExportSetsProcessEnvironment ==
    /\ (pc # "export" /\ dotenv.exists /\ ~dotenv.fails) =>
          /\ pc = "export_done"
          /\ \A k \in EnvKeys :
                dotenv.lines[k] # "<unset>" => environ[k] = dotenv.lines[k]
    /\ (pc # "export" /\ ~dotenv.exists) =>
          /\ pc = "export_done"
          /\ stdout = << [msg |-> "env_not_found", arg |-> <<>>] >>

\* C11: utils.common.read_yaml raises FileNotFoundError for a path that
\* does not exist, raises for every other failure to read or parse, and
\* whenever it returns, returns a ConfigBox holding the parsed data.
C11_ReadYamlRaisesOrReturnsConfigBox ==
    pc = "read_yaml_common_done" =>
        /\ yaml_result.outcome \in {"returned", "raised"}
        /\ yaml_file.kind = "missing" =>
              yaml_result = [outcome |-> "raised", type |-> "FileNotFoundError",
                             data |-> NoMapping]
        /\ yaml_result.outcome = "returned" =>
              /\ yaml_result.type = "ConfigBox"
              /\ yaml_file.kind = "mapping"
              /\ yaml_result.data = yaml_file.data

CandidateNames ==
    << <<"python">> \o python_version, <<"python", "3">>, <<"python">> >>
MatchingCandidates == {i \in DOMAIN probes : CandidateMatches(i)}
FirstMatch == CHOOSE i \in MatchingCandidates : \A j \in MatchingCandidates : i <= j

\* C12: discovery examines python<requested>, python3, python in that
\* order.  It returns the first candidate that is on the search path, whose
\* version query succeeds and prints exactly the requested version; no
\* earlier candidate does.  Candidates not on the path are not run, failing
\* and differing ones are run and passed over without an error, and no
\* candidate after the one returned is run.
C12_FirstMatchingCandidateInOrder ==
    pc = "post_create" =>
        /\ DOMAIN probes = 1..3
        /\ MatchingCandidates # {} =>
              py = [dir |-> "/usr/bin", name |-> CandidateNames[FirstMatch]]
        /\ py # SysExecutable =>
              \E i \in MatchingCandidates :
                  /\ py.name = CandidateNames[i]
                  /\ \A j \in 1..(i - 1) : ~CandidateMatches(j)
        /\ probeCalls =
              Cardinality({i \in DOMAIN probes :
                  /\ probes[i].found
                  /\ MatchingCandidates # {} => i <= FirstMatch})

C12_Witness ==
    /\ pc = "post_create"
    /\ probes[1].found /\ ~probes[1].ok
    /\ probes[2].found /\ probes[2].ok /\ ~CandidateMatches(2)
    /\ CandidateMatches(3)
    /\ py = [dir |-> "/usr/bin", name |-> <<"python">>]
    /\ probeCalls = 3

LaterStepFailed ==
    \/ venv_exit > 0
    \/ pc = "crashed" /\ create_exe # NoExe
    \/ create_exe = SysExecutable

\* C13: nothing is rolled back.  From the moment provisioning has
\* completed, no step of the run changes a listed directory or its
\* placeholder; in particular, when discovery falls back, or create_venv
\* fails by exit status or by raising, every listed directory still holds
\* its placeholder with its content.
C13_NoRollbackOfProvisioning ==
    /\ []((Provisioned /\ LaterStepFailed) => AllProvisioned(fs))
    /\ [][Provisioned => fs' = fs]_vars

C13_Witness ==
    /\ Provisioned
    /\ venv_exit = 1
    /\ create_exe = SysExecutable
    /\ pc = "done"
    /\ AllProvisioned(fs)

C13_WitnessRaised ==
    /\ Provisioned
    /\ pc = "crashed"
    /\ create_exe # NoExe
    /\ AllProvisioned(fs)

====
